---- MODULE Spec2Model ----
(***************************************************************************)
(* A model of the two EXIF readers of exif-rs/experimental:                *)
(*   rafreader.py  : read_raf_file -> find_app1_exif -> parse_exif         *)
(*   jpegreader.py : parse_exif (locates APP1 itself, decodes first IFD)   *)
(* Byte buffers are sequences of 0..255; Python index k is element k+1.    *)
(***************************************************************************)
EXTENDS Integers, Sequences, FiniteSets, TLC

VARIABLES
    prog,               \* which program runs: "raf" or "jpeg"
    pc,                 \* position in the program
    result,             \* how the run ended ("" while running)
    file,               \* raf: the bytes of the RAF file
    jpeg_offset, jpeg_length,               \* raf: header fields
    cfa_header_offset, cfa_header_length,
    cfa_offset, cfa_length,
    data,               \* raf: jpeg_data; jpeg: the file's bytes
    exif_data,          \* raf: what find_app1_exif returned
    endian,             \* "<" or ">" ("" before the TIFF header is read)
    start,              \* jpeg: index after the APP1 marker and length
    first_ifd_offset,   \* the TIFF header's offset field
    next_ifd_offset,    \* the last next-IFD field read
    offset,             \* the read position
    num_tags,           \* the count of the IFD being read
    idx,                \* entries of the current IFD read so far
    visits,             \* IFDs whose count was read
    tags                \* the tags decoded (printed), in order

vars == <<prog, pc, result, file, jpeg_offset, jpeg_length, cfa_header_offset,
          cfa_header_length, cfa_offset, cfa_length, data, exif_data, endian,
          start, first_ifd_offset, next_ifd_offset, offset, num_tags, idx,
          visits, tags>>

(***************************************************************************)
(* Bounds of the model.                                                    *)
(***************************************************************************)
\* The IFD walk of rafreader.parse_exif has no cap; the model stops it here.
MaxIfdVisits == 34

(***************************************************************************)
(* Bytes, slices and struct.unpack.                                        *)
(***************************************************************************)
Min(a, b) == IF a <= b THEN a ELSE b

\* Python d[a:b] for 0 <= a, 0 <= b: clamped to the buffer, never an error.
Slice(d, a, b) ==
    LET e == Min(b, Len(d))
    IN  IF a < e THEN SubSeq(d, a + 1, e) ELSE <<>>

\* struct.unpack(endian + 'H', b)[0] for a 2-byte b.
U16(e, b) == IF e = "<" THEN b[1] + 256 * b[2] ELSE 256 * b[1] + b[2]

\* struct.unpack(endian + 'L', b)[0] (also 'I') for a 4-byte b.
U32(e, b) ==
    IF e = "<"
    THEN b[1] + 256 * b[2] + 65536 * b[3] + 16777216 * b[4]
    ELSE 16777216 * b[1] + 65536 * b[2] + 256 * b[3] + b[4]

\* int.from_bytes(b, byteorder): any length, the empty buffer is 0.
RECURSIVE FromBytesBig(_)
FromBytesBig(b) ==
    IF Len(b) = 0 THEN 0
    ELSE 256 * FromBytesBig(SubSeq(b, 1, Len(b) - 1)) + b[Len(b)]

RECURSIVE FromBytesLittle(_)
FromBytesLittle(b) ==
    IF Len(b) = 0 THEN 0
    ELSE b[1] + 256 * FromBytesLittle(SubSeq(b, 2, Len(b)))

APP1 == <<255, 225>>                       \* b'\xFF\xE1'
EXIF_SIG == <<69, 120, 105, 102, 0, 0>>    \* b'Exif\0\0'
II == <<73, 73>>                           \* b'II'
MM == <<77, 77>>                           \* b'MM'

(***************************************************************************)
(* rafreader.find_app1_exif                                                *)
(***************************************************************************)
NoBlock == [none |-> TRUE, bytes |-> <<>>]

\* The scan from `index` on: the first APP1 marker whose signature is
\* 'Exif\0\0' gives data[index+10 : index+2+length]; None at the end.
RECURSIVE find_from(_, _)
find_from(d, index) ==
    IF ~(index + 4 < Len(d)) THEN NoBlock
    ELSE IF Slice(d, index, index + 2) = APP1
            /\ Slice(d, index + 4, index + 10) = EXIF_SIG
         THEN LET length == U16(">", Slice(d, index + 2, index + 4))
              IN  [none |-> FALSE,
                   bytes |-> Slice(d, index + 10, index + 2 + length)]
         ELSE find_from(d, index + 1)

find_app1_exif(d) == find_from(d, 0)

\* A test for None alone, as `exif_data is None` would be.
NotExifData_NoneOnly(x) == x.none

\* Python `not exif_data`: None and b'' are both falsy.
NotExifData(x) == x.none \/ Len(x.bytes) = 0

(***************************************************************************)
(* jpegreader: data.find(b'\xff\xe1')                                      *)
(***************************************************************************)
RECURSIVE bytes_find_from(_, _, _)
bytes_find_from(d, pat, k) ==
    IF k + Len(pat) > Len(d) THEN -1
    ELSE IF Slice(d, k, k + Len(pat)) = pat THEN k
    ELSE bytes_find_from(d, pat, k + 1)

bytes_find(d, pat) == bytes_find_from(d, pat, 0)

(***************************************************************************)
(* The inputs: byte buffers built the way a camera writes them, with the    *)
(* fields the readers depend on drawn from small sets.                     *)
(***************************************************************************)
Enc16(e, v) == IF e = "<" THEN <<v % 256, v \div 256>>
               ELSE <<v \div 256, v % 256>>

Enc32(e, v) ==
    IF e = "<"
    THEN <<v % 256, (v \div 256) % 256, (v \div 65536) % 256, v \div 16777216>>
    ELSE <<v \div 16777216, (v \div 65536) % 256, (v \div 256) % 256, v % 256>>

\* The 12 bytes of one directory entry.
EntryBytes(e, x) ==
    Enc16(e, x.tag) \o Enc16(e, x.typ) \o Enc32(e, x.count) \o Enc32(e, x.field)

\* The entries the inputs are built from; `va` is where the value area lies,
\* relative to the TIFF header.
EntryOf(kind, va) ==
    CASE kind = "orient" -> [tag |-> 274, typ |-> 3, count |-> 1, field |-> 1]
      [] kind = "pair"   -> [tag |-> 530, typ |-> 3, count |-> 2, field |-> 2]
      [] kind = "make"   -> [tag |-> 271, typ |-> 2, count |-> 5, field |-> va]
      [] kind = "model"  -> [tag |-> 272, typ |-> 2, count |-> 8, field |-> va]
      [] kind = "bits"   -> [tag |-> 258, typ |-> 3, count |-> 3, field |-> va]
      [] kind = "xres"   -> [tag |-> 282, typ |-> 5, count |-> 1, field |-> va]
      [] kind = "odd"    -> [tag |-> 30583, typ |-> 7, count |-> 1, field |-> 0]

RECURSIVE EntriesBytes(_, _, _)
EntriesBytes(e, kinds, va) ==
    IF kinds = <<>> THEN <<>>
    ELSE EntryBytes(e, EntryOf(Head(kinds), va)) \o EntriesBytes(e, Tail(kinds), va)

IfdBytes(e, kinds, va, next) ==
    Enc16(e, Len(kinds)) \o EntriesBytes(e, kinds, va) \o Enc32(e, next)

IfdSize(kinds) == 2 + 12 * Len(kinds) + 4

ValueArea == <<70, 117, 106, 105, 0, 72, 0, 1>>     \* b'Fuji\0H\0\x01'
\* A value area with a byte that is not ASCII.
Latin1Area == <<70, 117, 106, 105, 0, 233, 0, 1>>   \* b'Fuji\0\xe9\0\x01'

Ifd0Kinds == { <<>>, <<"orient">>, <<"make", "orient">>, <<"odd", "pair">>,
               <<"bits">>, <<"xres", "make">> }

\* What follows the first IFD: nothing, a second IFD (with one entry or
\* none), a next pointer back to the first IFD, or one past the buffer.
Tails == {"end", "chain", "chain0", "cycle", "far"}

Ifd1Kinds(tail) == IF tail = "chain" THEN <<"orient">> ELSE <<>>
HasIfd1(tail) == tail \in {"chain", "chain0"}

\* A TIFF block: header (marker, magic, offset field F), the first IFD at
\* byte 8, the second IFD if any, the value area.
TiffBlockWith(marker, magic, F, kinds0, tail, area) ==
    LET e    == IF marker = II THEN "<" ELSE ">"
        p1   == 8 + IfdSize(kinds0)
        va   == IF HasIfd1(tail) THEN p1 + IfdSize(Ifd1Kinds(tail)) ELSE p1
        nxt0 == CASE tail = "end"   -> 0
                  [] tail = "cycle" -> 8
                  [] tail = "far"   -> 120
                  [] OTHER          -> p1
    IN  marker \o Enc16(e, magic) \o Enc32(e, F)
        \o IfdBytes(e, kinds0, va, nxt0)
        \o (IF HasIfd1(tail) THEN IfdBytes(e, Ifd1Kinds(tail), va, 0) ELSE <<>>)
        \o area

TiffBlock(marker, magic, F, kinds0, tail) ==
    TiffBlockWith(marker, magic, F, kinds0, tail, ValueArea)

Markers == {II, MM, <<88, 88>>}
Magics == {42, 7}
FirstOffsets == {8, 2}
Truncs == {0, 4, 10, 13, 14, 17, 19}

TiffBlocks ==
    { TiffBlock(m, g, F, <<"orient">>, "end") :
          m \in Markers, g \in Magics, F \in FirstOffsets }
    \cup
    { TiffBlock(m, 42, F, k, t) :
          m \in {II, MM}, F \in FirstOffsets, k \in Ifd0Kinds, t \in Tails }

\* Blocks whose text value is not ASCII.
Latin1Blocks ==
    { TiffBlockWith(m, 42, F, <<"model">>, "end", Latin1Area) :
          m \in {II, MM}, F \in FirstOffsets }

SOI == <<255, 216>>
\* An APP1 segment that is not EXIF (XMP): marker, length 12, 10 bytes.
XMP == APP1 \o <<0, 12, 104, 116, 116, 112, 58, 47, 110, 115, 47, 0>>
Prefixes == { <<>>, SOI, SOI \o XMP }

\* An EXIF APP1 segment with declared length L.
ExifSegment(L, block) == APP1 \o Enc16(">", L) \o EXIF_SIG \o block

\* The length counts itself, the signature and the block.
FullSegment(block) == ExifSegment(8 + Len(block), block)

DropLast(b, n) == IF n >= Len(b) THEN <<>> ELSE SubSeq(b, 1, Len(b) - n)

JpegBuffers ==
    \* a whole segment, possibly cut short at the end of the buffer
    { DropLast(p \o FullSegment(b), t) :
          p \in Prefixes, b \in TiffBlocks, t \in Truncs }
    \cup
    { p \o FullSegment(b) : p \in {<<>>, SOI}, b \in Latin1Blocks }
    \cup
    \* a segment whose declared length leaves no block
    { p \o ExifSegment(L, TiffBlock(II, 42, 8, <<"orient">>, "end")) :
          p \in Prefixes, L \in {2, 8} }
    \cup
    \* a segment that ends with its signature
    { p \o ExifSegment(26, <<>>) : p \in Prefixes }
    \cup
    \* no EXIF segment at all
    { <<>>, <<255>>, SOI, <<225, 255>>, SOI \o <<255, 224, 0, 4, 1, 2>>,
      SOI \o XMP, SOI \o XMP \o <<255, 217>> }

(***************************************************************************)
(* RAF files: the fixed header read_raf_file reads, then the regions.      *)
(***************************************************************************)
RECURSIVE Zeros(_)
Zeros(n) == IF n = 0 THEN <<>> ELSE <<0>> \o Zeros(n - 1)

RAF_MAGIC == <<70, 85, 74, 73, 70, 73, 76, 77, 67, 67, 68, 45, 82, 65, 87, 32>>
RAF_VERSION == <<48, 50, 48, 49>>
RAF_CAMERA_ID == <<70, 70, 49, 50, 57, 53, 48, 50>>
RAF_CAMERA == <<88, 45, 84, 51>> \o Zeros(28)

\* Where the three (offset, length) pairs start: 16 + 4 + 8 + 32 + 24.
RAF_TIFF1_PTR_OFFSET == 84
\* The bytes read_raf_file reads as the header.
RafHeaderLen == RAF_TIFF1_PTR_OFFSET + 24

RafVariants == {"ok", "jpeg_over", "cfa_header_over", "cfa_over",
                "jpeg_beyond", "short", "nonascii"}

RafFile(j, v) ==
    LET jo  == IF v = "jpeg_beyond" THEN 500 ELSE RafHeaderLen
        jl  == IF v = "jpeg_over" THEN Len(j) + 20 ELSE Len(j)
        cho == RafHeaderLen + Len(j)
        chl == IF v = "cfa_header_over" THEN 400 ELSE 4
        co  == cho + 4
        cl  == IF v = "cfa_over" THEN 400 ELSE 4
        mg  == IF v = "nonascii" THEN <<255>> \o Tail(RAF_MAGIC) ELSE RAF_MAGIC
        all == mg \o RAF_VERSION \o RAF_CAMERA_ID \o RAF_CAMERA \o Zeros(24)
               \o Enc32(">", jo) \o Enc32(">", jl)
               \o Enc32(">", cho) \o Enc32(">", chl)
               \o Enc32(">", co) \o Enc32(">", cl)
               \o j \o <<1, 2, 3, 4>> \o <<5, 6, 7, 8>>
    IN  IF v = "short" THEN SubSeq(all, 1, 90) ELSE all

\* The JPEGs the header variants are tried on.
VariantJpegs ==
    { SOI,
      SOI \o ExifSegment(8, <<>>),
      SOI \o FullSegment(TiffBlock(II, 42, 2, <<"orient">>, "end")),
      SOI \o XMP \o FullSegment(TiffBlock(MM, 42, 2, <<"orient">>, "end")) }

RafFiles ==
    { RafFile(j, "ok") : j \in JpegBuffers }
    \cup { RafFile(j, v) : j \in VariantJpegs, v \in RafVariants }

(***************************************************************************)
(* The initial states: a program and its input file.                       *)
(***************************************************************************)
Init ==
    /\ prog \in {"raf", "jpeg"}
    /\ \/ prog = "raf" /\ file \in RafFiles /\ data = <<>> /\ pc = "read_raf_file"
       \/ prog = "jpeg" /\ file = <<>> /\ data \in JpegBuffers /\ pc = "parse_exif"
    /\ result = ""
    /\ jpeg_offset = 0 /\ jpeg_length = 0
    /\ cfa_header_offset = 0 /\ cfa_header_length = 0
    /\ cfa_offset = 0 /\ cfa_length = 0
    /\ exif_data = NoBlock
    /\ endian = ""
    /\ start = 0
    /\ first_ifd_offset = 0 /\ next_ifd_offset = 0
    /\ offset = 0 /\ num_tags = 0 /\ idx = 0 /\ visits = 0
    /\ tags = <<>>

hdrVars == <<jpeg_offset, jpeg_length, cfa_header_offset, cfa_header_length,
             cfa_offset, cfa_length>>
walkVars == <<endian, start, first_ifd_offset, next_ifd_offset, offset,
              num_tags, idx, visits, tags>>

\* The run ends: an exception, a message and return, or a plain return.
Finish(r) == pc' = "done" /\ result' = r

(***************************************************************************)
(* rafreader.read_raf_file                                                 *)
(***************************************************************************)
\* bytes.decode('ascii') raises on a byte above 127.
IsAscii(b) == \A k \in 1..Len(b) : b[k] <= 127

\* file.read(4) at `pos`, unpacked as '>I'; -1 stands for struct.error.
ReadU32At(pos) ==
    LET b == Slice(file, pos, pos + 4)
    IN  IF Len(b) = 4 THEN U32(">", b) ELSE -1

\* Lines 7-43: the four text fields, the 24 bytes skipped, the six integers.
ReadRafHeader ==
    /\ prog = "raf" /\ pc = "read_raf_file"
    /\ IF ~IsAscii(Slice(file, 0, 60))
       THEN Finish("UnicodeDecodeError") /\ UNCHANGED hdrVars
       ELSE IF \E k \in 0..5 : ReadU32At(RAF_TIFF1_PTR_OFFSET + 4 * k) = -1
       THEN Finish("struct.error") /\ UNCHANGED hdrVars
       ELSE /\ jpeg_offset' = ReadU32At(RAF_TIFF1_PTR_OFFSET)
            /\ jpeg_length' = ReadU32At(RAF_TIFF1_PTR_OFFSET + 4)
            /\ cfa_header_offset' = ReadU32At(RAF_TIFF1_PTR_OFFSET + 8)
            /\ cfa_header_length' = ReadU32At(RAF_TIFF1_PTR_OFFSET + 12)
            /\ cfa_offset' = ReadU32At(RAF_TIFF1_PTR_OFFSET + 16)
            /\ cfa_length' = ReadU32At(RAF_TIFF1_PTR_OFFSET + 20)
            /\ pc' = "read_jpeg" /\ result' = result
    /\ UNCHANGED <<prog, file, data, exif_data, walkVars>>

\* Lines 49-50: file.seek(jpeg_offset); jpeg_data = file.read(jpeg_length).
\* A read past the end of the file returns what is there.
ReadJpegData ==
    /\ prog = "raf" /\ pc = "read_jpeg"
    /\ data' = Slice(file, jpeg_offset, jpeg_offset + jpeg_length)
    /\ pc' = "find_app1_exif"
    /\ UNCHANGED <<prog, result, file, hdrVars, exif_data, walkVars>>

\* Line 51: exif_data = find_app1_exif(jpeg_data).
FindExif ==
    /\ prog = "raf" /\ pc = "find_app1_exif"
    /\ exif_data' = find_app1_exif(data)
    /\ pc' = "check_exif"
    /\ UNCHANGED <<prog, result, file, hdrVars, data, walkVars>>

\* Lines 52-56: no EXIF data, or parse_exif(exif_data).
CheckExif ==
    /\ prog = "raf" /\ pc = "check_exif"
    /\ IF NotExifData(exif_data)
       THEN Finish("No EXIF data found.")
       ELSE pc' = "raf_parse_exif" /\ result' = result
    /\ UNCHANGED <<prog, file, hdrVars, data, exif_data, walkVars>>

(***************************************************************************)
(* rafreader.parse_exif: the block find_app1_exif returned.                *)
(***************************************************************************)
Block == exif_data.bytes

\* Lines 110-124: the endianness marker, the magic number, the first offset.
\* struct.unpack raises struct.error on a slice that is too short.
RafParseHeader ==
    /\ prog = "raf" /\ pc = "raf_parse_exif"
    /\ IF Slice(Block, 0, 2) \notin {II, MM}
       THEN Finish("Invalid TIFF data.")
            /\ UNCHANGED <<endian, first_ifd_offset, offset>>
       ELSE LET e == IF Slice(Block, 0, 2) = II THEN "<" ELSE ">"
            IN  /\ endian' = e
                /\ IF Len(Slice(Block, 2, 4)) # 2
                   THEN Finish("struct.error")
                        /\ UNCHANGED <<first_ifd_offset, offset>>
                   ELSE IF U16(e, Slice(Block, 2, 4)) # 42
                   THEN Finish("Invalid TIFF magic number.")
                        /\ UNCHANGED <<first_ifd_offset, offset>>
                   ELSE IF Len(Slice(Block, 4, 8)) # 4
                   THEN Finish("struct.error")
                        /\ UNCHANGED <<first_ifd_offset, offset>>
                   ELSE /\ first_ifd_offset' = U32(e, Slice(Block, 4, 8))
                        /\ offset' = first_ifd_offset' + 6
                        /\ pc' = "while" /\ result' = result
    /\ UNCHANGED <<prog, file, hdrVars, data, exif_data, start,
                   next_ifd_offset, num_tags, idx, visits, tags>>

\* Lines 126-128: the loop test, then the tag count of the IFD at offset.
RafWhile ==
    /\ prog = "raf" /\ pc = "while"
    /\ visits < MaxIfdVisits
    /\ IF offset # 0 /\ offset < Len(Block) - 2
       THEN /\ num_tags' = U16(endian, Slice(Block, offset, offset + 2))
            /\ offset' = offset + 2
            /\ idx' = 0
            /\ visits' = visits + 1
            /\ pc' = "for" /\ result' = result
       ELSE /\ Finish("end of loop")
            /\ UNCHANGED <<num_tags, offset, idx, visits>>
    /\ UNCHANGED <<prog, file, hdrVars, data, exif_data, endian, start,
                   first_ifd_offset, next_ifd_offset, tags>>

\* struct.unpack(endian + 'HHLL', b) of a 12-byte entry.
UnpackEntry(e, b, at) ==
    [tag |-> U16(e, SubSeq(b, 1, 2)), typ |-> U16(e, SubSeq(b, 3, 4)),
     count |-> U32(e, SubSeq(b, 5, 8)), value_offset |-> U32(e, SubSeq(b, 9, 12)),
     at |-> at]

\* Lines 131-140: one entry of the IFD, or the bounds message and return.
RafReadEntry ==
    /\ prog = "raf" /\ pc = "for" /\ idx < num_tags
    /\ IF offset > Len(Block) - 12
       THEN Finish("Offset out of bounds for data size")
            /\ UNCHANGED <<tags, offset, idx>>
       ELSE /\ tags' = Append(tags,
                    UnpackEntry(endian, Slice(Block, offset, offset + 12), offset))
            /\ offset' = offset + 12
            /\ idx' = idx + 1
            /\ UNCHANGED <<pc, result>>
    /\ UNCHANGED <<prog, file, hdrVars, data, exif_data, endian, start,
                   first_ifd_offset, next_ifd_offset, num_tags, visits>>

\* Lines 142-148: after the entries, the pointer to the next IFD.
RafNextIfd ==
    /\ prog = "raf" /\ pc = "for" /\ idx >= num_tags
    /\ IF offset + 4 > Len(Block)
       THEN Finish("break: no next pointer")
            /\ UNCHANGED <<next_ifd_offset, offset>>
       ELSE /\ next_ifd_offset' = U32(endian, Slice(Block, offset, offset + 4))
            /\ IF next_ifd_offset' = 0
               THEN Finish("break: next is 0") /\ offset' = offset
               ELSE offset' = next_ifd_offset' /\ pc' = "while" /\ result' = result
    /\ UNCHANGED <<prog, file, hdrVars, data, exif_data, endian, start,
                   first_ifd_offset, num_tags, idx, visits, tags>>

(***************************************************************************)
(* jpegreader.parse_exif: the whole JPEG.                                  *)
(***************************************************************************)
\* Line 72: what the value offsets are added to.
file_offset == 12

\* Lines 50-61: the first APP1 marker, then the signature after its length.
JpegLocate ==
    /\ prog = "jpeg" /\ pc = "parse_exif"
    /\ LET s == bytes_find(data, APP1)
       IN  IF s = -1
           THEN Finish("ValueError: No APP1 header found.") /\ start' = start
           ELSE IF Slice(data, s + 4, s + 10) # EXIF_SIG
           THEN Finish("ValueError: Invalid EXIF data.") /\ start' = s + 4
           ELSE start' = s + 4 /\ pc' = "tiff_header" /\ result' = result
    /\ UNCHANGED <<prog, file, hdrVars, data, exif_data, endian,
                   first_ifd_offset, next_ifd_offset, offset, num_tags, idx,
                   visits, tags>>

\* Lines 63-70: the endianness, the offset of the first IFD, its tag count.
JpegHeader ==
    /\ prog = "jpeg" /\ pc = "tiff_header"
    /\ LET e   == IF Slice(data, start + 6, start + 8) = II THEN "<" ELSE ">"
           raw == Slice(data, start + 10, start + 14)
           offset_to_ifd == IF e = "<" THEN FromBytesLittle(raw)
                            ELSE FromBytesBig(raw)
           off == start + 6 + offset_to_ifd
       IN  /\ endian' = e
           /\ first_ifd_offset' = offset_to_ifd
           /\ IF Len(Slice(data, off, off + 2)) # 2
              THEN Finish("struct.error")
                   /\ UNCHANGED <<offset, num_tags, visits>>
              ELSE /\ num_tags' = U16(e, Slice(data, off, off + 2))
                   /\ offset' = off + 2
                   /\ visits' = visits + 1
                   /\ pc' = "for" /\ result' = result
    /\ UNCHANGED <<prog, file, hdrVars, data, exif_data, start,
                   next_ifd_offset, idx, tags>>

\* struct.unpack(f'{endian}{n}H', b): n shorts.
Shorts(e, b) == [k \in 1..(Len(b) \div 2) |-> U16(e, SubSeq(b, 2 * k - 1, 2 * k))]
\* struct.unpack(f'{endian}{n}I', b): n longs.
Longs(e, b) == [k \in 1..(Len(b) \div 4) |-> U32(e, SubSeq(b, 4 * k - 3, 4 * k))]
\* Line 95: the longs, two at a time.
Rationals(e, b) ==
    [k \in 1..(Len(b) \div 8) |->
        <<U32(e, SubSeq(b, 8 * k - 7, 8 * k - 4)), U32(e, SubSeq(b, 8 * k - 3, 8 * k))>>]

\* The bytes of one element of each type the code decodes (lines 82-94).
Width(typ) == CASE typ \in {1, 2} -> 1 [] typ = 3 -> 2 [] typ = 4 -> 4
                [] typ = 5 -> 8 [] OTHER -> 0

\* Lines 81-95: the value of an entry, read at file_offset + value_offset.
\* A count no buffer of this length can hold is refused before the product
\* is formed (Python's integers do not overflow; the model's do).
DecodeValue(d, e, typ, count, value_offset) ==
    LET pos == file_offset + value_offset
        b   == Slice(d, pos, pos + Width(typ) * count)
        bad(x) == [err |-> x, kind |-> "None", value |-> <<>>, pos |-> pos]
        ok(k, v) == [err |-> "", kind |-> k, value |-> v, pos |-> pos]
    IN  IF typ \notin 1..5 THEN ok("None", <<>>)
        ELSE IF count > Len(d)
        THEN (IF typ = 1 THEN ok("Bytes", Slice(d, pos, Len(d)))
              ELSE IF typ = 2
              THEN (IF IsAscii(Slice(d, pos, Len(d)))
                    THEN ok("Text", Slice(d, pos, Len(d)))
                    ELSE bad("UnicodeDecodeError"))
              ELSE bad("struct.error"))
        ELSE CASE typ = 1 -> ok("Bytes", b)
               [] typ = 2 -> IF IsAscii(b) THEN ok("Text", b)
                             ELSE bad("UnicodeDecodeError")
               [] typ = 3 -> IF Len(b) = 2 * count THEN ok("Shorts", Shorts(e, b))
                             ELSE bad("struct.error")
               [] typ = 4 -> IF Len(b) = 4 * count THEN ok("Longs", Longs(e, b))
                             ELSE bad("struct.error")
               [] typ = 5 -> IF Len(b) = 8 * count
                             THEN ok("Rationals", Rationals(e, b))
                             ELSE bad("struct.error")

\* Lines 74-98: one entry and its value.
JpegReadEntry ==
    /\ prog = "jpeg" /\ pc = "for" /\ idx < num_tags
    /\ LET b == Slice(data, offset, offset + 12)
       IN  IF Len(b) # 12
           THEN Finish("struct.error") /\ UNCHANGED <<tags, offset, idx>>
           ELSE LET x == UnpackEntry(endian, b, offset)
                    v == DecodeValue(data, endian, x.typ, x.count, x.value_offset)
                IN  IF v.err # ""
                    THEN Finish(v.err) /\ UNCHANGED <<tags, offset, idx>>
                    ELSE /\ tags' = Append(tags,
                                 [tag |-> x.tag, typ |-> x.typ, count |-> x.count,
                                  value_offset |-> x.value_offset, at |-> x.at,
                                  kind |-> v.kind, value |-> v.value,
                                  valuePos |-> v.pos])
                         /\ offset' = offset + 12
                         /\ idx' = idx + 1
                         /\ UNCHANGED <<pc, result>>
    /\ UNCHANGED <<prog, file, hdrVars, data, exif_data, endian, start,
                   first_ifd_offset, next_ifd_offset, num_tags, visits>>

\* The loop of line 74 is over: parse_exif returns.
JpegReturn ==
    /\ prog = "jpeg" /\ pc = "for" /\ idx >= num_tags
    /\ Finish("returned")
    /\ UNCHANGED <<prog, file, hdrVars, data, exif_data, walkVars>>

Next ==
    \/ ReadRafHeader
    \/ ReadJpegData
    \/ FindExif
    \/ CheckExif
    \/ RafParseHeader
    \/ RafWhile
    \/ RafReadEntry
    \/ RafNextIfd
    \/ JpegLocate
    \/ JpegHeader
    \/ JpegReadEntry
    \/ JpegReturn

Spec == Init /\ [][Next]_vars

(***************************************************************************)
(* What the properties below speak of.                                     *)
(***************************************************************************)
\* The buffer parse_exif reads and where its TIFF header starts in it.
Buf == IF prog = "raf" THEN Block ELSE data
TiffStart == IF prog = "raf" THEN 0 ELSE start + 6

OutOfBounds == "Offset out of bounds for data size"

MarkerAt(d, k) == Slice(d, k, k + 2) = APP1
ExifAt(d, k) == MarkerAt(d, k) /\ Slice(d, k + 4, k + 10) = EXIF_SIG
HasMarker(d) == \E k \in 0..Len(d) : MarkerAt(d, k)

\* The block of the EXIF segment whose marker is at k.
BlockAt(d, k) == Slice(d, k + 10, k + 2 + U16(">", Slice(d, k + 2, k + 4)))

\* A TIFF header the format accepts at byte t of b.
HeaderEndian(b, t) == IF Slice(b, t, t + 2) = II THEN "<" ELSE ">"
ValidHeader(b, t) ==
    /\ Slice(b, t, t + 2) \in {II, MM}
    /\ Len(Slice(b, t, t + 8)) = 8
    /\ U16(HeaderEndian(b, t), Slice(b, t + 2, t + 4)) = 42
\* A header whose marker or magic number is wrong.
BadHeader(b, t) ==
    \/ Len(Slice(b, t, t + 2)) = 2 /\ Slice(b, t, t + 2) \notin {II, MM}
    \/ /\ Len(Slice(b, t + 2, t + 4)) = 2
       /\ U16(HeaderEndian(b, t), Slice(b, t + 2, t + 4)) # 42

\* The directory entries the format declares: the IFD at pos, then the
\* chain of next pointers relative to the header at t, while in bounds.
RECURSIVE DeclaredChain(_, _, _, _, _)
DeclaredChain(b, t, e, pos, fuel) ==
    LET bad == [ok |-> FALSE, entries |-> <<>>]
    IN  IF fuel = 0 \/ pos + 2 > Len(b) THEN bad
        ELSE LET n  == U16(e, Slice(b, pos, pos + 2))
                 np == pos + 2 + 12 * n
             IN  IF np + 4 > Len(b) THEN bad
                 ELSE LET ents == [k \in 1..n |->
                                     UnpackEntry(e, Slice(b, pos + 12 * k - 10,
                                                          pos + 12 * k + 2),
                                                 pos + 12 * k - 10)]
                          nx == U32(e, Slice(b, np, np + 4))
                      IN  IF nx = 0 THEN [ok |-> TRUE, entries |-> ents]
                          ELSE LET r == DeclaredChain(b, t, e, t + nx, fuel - 1)
                               IN  [ok |-> r.ok, entries |-> ents \o r.entries]

Declared(b, t) ==
    LET e == HeaderEndian(b, t)
    IN  DeclaredChain(b, t, e, t + U32(e, Slice(b, t + 4, t + 8)), 4)

\* The values the declared entries point to lie inside the buffer.
ValuesInBounds(b, t, ents) ==
    \A k \in 1..Len(ents) :
        (ents[k].typ \in 1..5 /\ ents[k].count <= Len(b)
           /\ Width(ents[k].typ) * ents[k].count > 4) =>
            t + ents[k].value_offset + Width(ents[k].typ) * ents[k].count <= Len(b)

\* A block the format accepts: header, IFD chain and values in bounds.
WellFormed(b, t) ==
    /\ ValidHeader(b, t)
    /\ Declared(b, t).ok
    /\ \A k \in 1..Len(Declared(b, t).entries) :
           Declared(b, t).entries[k].count <= Len(b)
    /\ ValuesInBounds(b, t, Declared(b, t).entries)

EntryFields(x) == [tag |-> x.tag, typ |-> x.typ, count |-> x.count,
                   value_offset |-> x.value_offset, at |-> x.at]
DecodedEntries == [k \in 1..Len(tags) |-> EntryFields(tags[k])]

\* parse_exif has a located block in hand.
Located ==
    \/ prog = "raf" /\ pc \in {"raf_parse_exif", "while", "for"}
    \/ prog = "raf" /\ pc = "done" /\ ~exif_data.none /\ exif_data.bytes # <<>>
    \/ prog = "jpeg" /\ pc \in {"tiff_header", "for"}
    \/ prog = "jpeg" /\ pc = "done"
         /\ result \notin {"ValueError: No APP1 header found.",
                           "ValueError: Invalid EXIF data."}

\* The run ended where a read of the IFD would pass the end of the buffer.
IfdReadOverrun ==
    /\ pc = "done" /\ Located /\ ValidHeader(Buf, TiffStart)
    /\ \/ /\ prog = "raf"
          /\ \/ result = "end of loop" /\ offset + 2 > Len(Block)
             \/ result = "break: no next pointer"
             \/ result = OutOfBounds
       \/ /\ prog = "jpeg" /\ result = "struct.error"
          /\ visits = 0 \/ offset + 12 > Len(data)

(***************************************************************************)
(* C1. When the tag count, an entry or the next-IFD pointer of an IFD      *)
(* would be read past the end of the buffer, parse_exif stops with the     *)
(* tags decoded so far and signals out of bounds; it does not end in an    *)
(* exception or stop without a signal.                                     *)
(***************************************************************************)
C1_OverrunIsSignalled == IfdReadOverrun => result = OutOfBounds

(***************************************************************************)
(* C2. The IFD chain walk visits at most the configured chain depth, 32    *)
(* IFDs, also when a next pointer leads back to an IFD already visited.    *)
(***************************************************************************)
C2_ChainDepthCapped == visits <= 32

(***************************************************************************)
(* C3. On a buffer without the byte pair FF E1 the locator ends with an    *)
(* absent result (None), never with a raised error.                        *)
(***************************************************************************)
C3_NoMarkerIsAbsent ==
    ~HasMarker(data) =>
        /\ (prog = "raf" /\ pc = "check_exif") => exif_data.none
        /\ (prog = "jpeg" /\ pc = "done") =>
               result \notin {"ValueError: No APP1 header found.",
                              "ValueError: Invalid EXIF data."}

\* The first EXIF segment is at k and an APP1 marker without the signature
\* comes before it.
FalseMatchThenExif(d, k) ==
    /\ ExifAt(d, k)
    /\ \A j \in 0..(k - 1) : ~ExifAt(d, j)
    /\ \E j \in 0..(k - 1) : MarkerAt(d, j)

(***************************************************************************)
(* C4. When an FF E1 marker without the Exif signature comes before an FF  *)
(* E1 marker with it, the locator does not fail at the first: it returns   *)
(* the block of the later segment.                                         *)
(***************************************************************************)
C4_SkipsFalseMatch ==
    \A k \in 0..Len(data) :
        FalseMatchThenExif(data, k) =>
            /\ (prog = "raf" /\ pc = "check_exif") =>
                   ~exif_data.none /\ exif_data.bytes = BlockAt(data, k)
            /\ (prog = "jpeg" /\ pc # "parse_exif") =>
                   result # "ValueError: Invalid EXIF data." /\ start = k + 4

(***************************************************************************)
(* C5. A located block whose endianness marker is neither II nor MM, or    *)
(* whose magic number is not 42, ends the decode with a decode error and   *)
(* no tag of it is decoded.                                                *)
(***************************************************************************)
C5_BadHeaderAborts ==
    (Located /\ BadHeader(Buf, TiffStart)) =>
        /\ tags = <<>>
        /\ pc \notin {"while", "for"}
        /\ pc = "done" =>
               result \in {"Invalid TIFF data.", "Invalid TIFF magic number."}

(***************************************************************************)
(* C6. On a valid header (II or MM, magic 42) with an in-bounds IFD chain  *)
(* (and in-bounds values) parse_exif decodes, IFD by IFD, exactly the      *)
(* entries each directory declares, in directory order.                    *)
(***************************************************************************)
C6_DecodesDeclaredEntries ==
    (Located /\ pc = "done" /\ WellFormed(Buf, TiffStart)) =>
        DecodedEntries = Declared(Buf, TiffStart).entries

(***************************************************************************)
(* C7. Every IFD is read at the TIFF header's start plus the offset stored *)
(* in the block: the first at TiffStart + first_ifd_offset, each later one *)
(* at TiffStart + next_ifd_offset.                                         *)
(***************************************************************************)
C7_IfdAtHeaderPlusOffset ==
    /\ (prog = "raf" /\ pc = "while") =>
           offset = TiffStart + (IF visits = 0 THEN first_ifd_offset
                                 ELSE next_ifd_offset)
    /\ (prog = "jpeg" /\ pc = "for" /\ idx = 0) =>
           offset - 2 = TiffStart + first_ifd_offset

(***************************************************************************)
(* C8. The value of an entry of a supported type (of a well-formed block)  *)
(* is taken from the entry's own 4-byte field when Width(typ) * count <= 4 *)
(* and from the buffer at TiffStart + value_offset when it is larger.      *)
(***************************************************************************)
C8_InlineOrDereferenced ==
    (prog = "jpeg" /\ Located /\ WellFormed(Buf, TiffStart)) =>
        \A k \in 1..Len(tags) :
            tags[k].typ \in 1..5 =>
                IF Width(tags[k].typ) * tags[k].count <= 4
                THEN tags[k].valuePos = tags[k].at + 8
                ELSE tags[k].valuePos = TiffStart + tags[k].value_offset

\* A region of the RAF header that ends past the end of the file.
RegionOverruns(o, l) == o + l > Len(file)

(***************************************************************************)
(* C9. read_raf_file checks each region of the header against the file     *)
(* length: the bytes of a region that overruns the file are not extracted  *)
(* or handed on and the run reports the error, while a region in bounds    *)
(* is still extracted.                                                     *)
(***************************************************************************)
C9_RegionsValidated ==
    prog = "raf" =>
        /\ pc = "find_app1_exif" =>
               /\ ~RegionOverruns(jpeg_offset, jpeg_length)
               /\ data = Slice(file, jpeg_offset, jpeg_offset + jpeg_length)
        /\ (pc = "done" /\ result = "No EXIF data found.") =>
               /\ ~RegionOverruns(jpeg_offset, jpeg_length)
               /\ ~RegionOverruns(cfa_header_offset, cfa_header_length)
               /\ ~RegionOverruns(cfa_offset, cfa_length)

(***************************************************************************)
(* C10. In read_raf_file parse_exif runs only on a non-empty block: when   *)
(* find_app1_exif returned None or an empty block the run ends with "No    *)
(* EXIF data found." and no TIFF header or IFD is read.                    *)
(***************************************************************************)
C10_ParseOnlyNonEmptyBlock ==
    /\ [](prog = "raf" /\ pc \in {"raf_parse_exif", "while", "for"} =>
              ~exif_data.none /\ exif_data.bytes # <<>>)
    /\ [][(prog = "raf" /\ pc = "check_exif"
             /\ (exif_data.none \/ exif_data.bytes = <<>>)) =>
              (pc' = "done" /\ result' = "No EXIF data found."
                 /\ UNCHANGED walkVars)]_vars

\* Reached: an EXIF segment was found, its block is empty, the run ended
\* with the message.
C10_Witness ==
    /\ prog = "raf" /\ pc = "done"
    /\ ~exif_data.none /\ exif_data.bytes = <<>>
    /\ \E k \in 0..Len(data) : ExifAt(data, k)
    /\ result = "No EXIF data found."

====
